---- MODULE Spec2Model ----
(***************************************************************************)
(* A model of upytest (src/upytest.py): the skip registry, TestCase,       *)
(* TestModule (harvesting, limit_tests_to, run), gather_conftest_functions,*)
(* discover and the run orchestrator (Spec, TwiceSpec for a second call of *)
(* run, AsyncSpec with each call followed from its start to its end);      *)
(* limit_tests_to, the raises guard and the Fisher-Yates                   *)
(* loop of shuffle each run on their own (LimitSpec, GuardSpec,            *)
(* ShuffleSpec).                                                           *)
(*                                                                         *)
(* A path is the sequence of its "/"-separated segments, a test name the   *)
(* sequence of its "."-separated parts, and a target string the sequence   *)
(* target.split("::") gives: its path, then one list of names (the result  *)
(* of split(",")) per further segment.                                     *)
(***************************************************************************)
EXTENDS Integers, Sequences, FiniteSets, TLC

\* The largest number of arguments given to run() where every list of
\* targets is tried.
MaxTargets == 2

\* src/upytest.py:64-70
PENDING == "pending"
PASS == "pass"
FAIL == "fail"
SKIPPED == "skipped"

\* Python's None, for a traceback, a reason or a hook that is not set.
None == "None"
\* src/upytest.py:174
NoReasonGiven == "No reason given."

---------------------------------------------------------------------------
(* The file tree and the test modules the runner is pointed at.            *)

DirD == <<"d">>
DirSub == <<"d", "sub">>
Dirs == {DirD, DirSub}

FileA == <<"d", "test_a.py">>
FileB == <<"d", "sub", "test_b.py">>
FileHelper == <<"d", "helper.py">>
FileMissing == <<"d", "nope.py">>
\* The module files that exist, in the order a recursive walk lists them.
WalkOrder == <<FileA, FileHelper, FileB>>
Files == {WalkOrder[i] : i \in 1..Len(WalkOrder)}

\* The test definitions (the function objects); a definition is its own id().
Defs == {"a1", "a2", "bm", "bn"}
DefsOf(file) ==
    IF file = FileA THEN <<"a1", "a2">>
    ELSE IF file = FileB THEN <<"bm", "bn">>
    ELSE <<>>

\* What a module or conftest member named setup/teardown can be.
MemberKinds == {"absent", "function", "value"}
\* What a test callable does when invoked: it returns, raises an Exception,
\* or raises a BaseException that is no Exception (SystemExit, ...).
Outcomes == {"returns", "raisesException", "raisesBaseException"}
\* What a hook does when invoked.
HookOutcomes == {"returns", "raises"}
Reasons == {"", "flaky"}

Hook(src, at, which) == [src |-> src, at |-> at, which |-> which]
NoHook == Hook("none", <<>>, "")

VARIABLES
    args,           \* run(*args): the targets given
    randomize,      \* run(random=...)
    conftestFiles,  \* directory -> [exists, attrs]: its conftest.py and what it defines
    localHooks,     \* module file -> kind of its members named setup and teardown
    marks,          \* definition -> the skip markers written on it, innermost first
    body,           \* definition -> what the test callable does
    pc,             \* where run() is
    error,          \* the exception run() ended with, or None
    ti,             \* discover: index of the target being processed
    conftests,      \* discover: the conftest cache
    result,         \* discover: the TestModule list being built
    test_modules,   \* run: the list discover returned
    test_count,     \* run: the number of tests counted before running
    imported,       \* the modules already imported (sys.modules)
    SKIPPED_TESTS,  \* _SKIPPED_TESTS: id -> reason
    gatherLog,      \* the calls of gather_conftest_functions, in order
    mi,             \* run: index of the module being run
    tci,            \* TestModule.run: index of the test case being run
    phase,          \* TestModule.run: the next step for test case tci
    trace,          \* the hooks and test cases run, in order
    glyphs,         \* the status glyphs printed, in order
    invoked,        \* the <<module index, test index>> whose callable was invoked
    passed_tests, failed_tests, skipped_tests,
    returned,       \* the result run() returned, or None
    runs,           \* the calls of run() made so far
    first,          \* what the first call of run() returned
    limited,        \* limit_tests_to on its own: the TestModule it filters
    names,          \* limit_tests_to on its own: the test_names it is given
    kept,           \* limit_tests_to on its own: the tests held, call after call
    expected,       \* raises on its own: the arguments of raises(...)
    guard,          \* raises on its own: the guard object, once constructed
    guard_pc,       \* raises on its own: where the with statement is
    guard_error,    \* raises on its own: the exception the guard raised
    block,          \* raises on its own: the kind of exception the block raised
    unshuffled,     \* shuffle on its own: the list as it was given
    shuffled,       \* shuffle on its own: a_list, swapped in place
    fy_i,           \* shuffle on its own: the loop variable i
    picked,         \* shuffle on its own: the values of j drawn so far
    inflight,       \* the calls run() has started that have not completed
    completed,      \* the calls run() has started that have completed
    hanging         \* the callables that never complete once called

vars == <<args, randomize, conftestFiles, localHooks, marks, body,
          pc, error, ti, conftests, result, test_modules, test_count, imported,
          SKIPPED_TESTS, gatherLog, mi, tci, phase, trace, glyphs, invoked,
          passed_tests, failed_tests, skipped_tests, returned,
          runs, first, limited, names, kept,
          expected, guard, guard_pc, guard_error, block,
          unshuffled, shuffled, fy_i, picked, inflight, completed, hanging>>

\* What run() is given and pointed at: no step changes it.
fixture == <<args, randomize, conftestFiles, localHooks, marks, body>>
\* The state of discover and of the imports it makes.
discovery == <<conftests, result, imported, SKIPPED_TESTS, gatherLog>>
\* The state of the module loop of run().
running == <<test_modules, test_count, mi, tci, phase, trace, glyphs, invoked,
             passed_tests, failed_tests, skipped_tests, returned>>

\* The calls of run() made in the same interpreter.
history == <<runs, first>>
\* The state of limit_tests_to checked on its own.
limiting == <<limited, names, kept>>
\* The state of a raises guard checked on its own.
guarding == <<expected, guard, guard_pc, guard_error, block>>
\* The state of shuffle checked on its own.
shuffling == <<unshuffled, shuffled, fy_i, picked>>
\* The callables in flight, where calls are followed from start to end.
awaiting == <<inflight, completed, hanging>>
\* What no step of one call of run() touches.
aside == <<history, limiting, guarding, shuffling, awaiting>>

---------------------------------------------------------------------------
(* Paths                                                                   *)

\* Path(p).parent, and "/".join(str(p).split("/")[:-1])
Parent(p) == IF Len(p) = 0 THEN <<>> ELSE SubSeq(p, 1, Len(p) - 1)
ConftestPath(dir) == Append(dir, "conftest.py")

IsPrefix(d, p) == Len(d) < Len(p) /\ SubSeq(p, 1, Len(d)) = d

\* The default pattern of run(), "test_*.py", on a file's name.
MatchesPattern(p) == p \in {FileA, FileB}

\* Path(target).rglob(pattern)
Rglob(dir) == SelectSeq(WalkOrder, LAMBDA f : IsPrefix(dir, f) /\ MatchesPattern(f))

\* os.path.isdir
IsDir(p) == p \in Dirs

\* Whether import_module(path) finds a module.
Importable(p) == p \in Files

---------------------------------------------------------------------------
(* The skip marker and module loading                                      *)

\* skip with the marker recorded whatever skip_when is.
skipRegardless(registry, func, reason, skip_when) ==
    (func :> reason) @@ registry

\* skip(reason, skip_when)(func), as the registry it leaves.
skip(registry, func, reason, skip_when) ==
    IF skip_when THEN (func :> reason) @@ registry ELSE registry

RECURSIVE ApplyMarkers(_, _, _)
\* The decorators written on one definition, applied innermost first.
ApplyMarkers(registry, func, markers) ==
    IF markers = <<>> THEN registry
    ELSE ApplyMarkers(skip(registry, func, Head(markers).reason, Head(markers).skip_when),
                      func, Tail(markers))

RECURSIVE LoadDefs(_, _)
\* Executing a module's body: each decorated definition is marked in turn.
LoadDefs(registry, defs) ==
    IF defs = <<>> THEN registry
    ELSE LoadDefs(ApplyMarkers(registry, Head(defs), marks[Head(defs)]), Tail(defs))

\* import_module(path) of a module that exists: the body runs on the first
\* import only; the state is <<imported, registry>>.
import_module(path, st) ==
    IF path \in st[1] THEN st
    ELSE <<st[1] \cup {path}, LoadDefs(st[2], DefsOf(path))>>

---------------------------------------------------------------------------
(* The members of the loaded modules, in definition order                  *)

Member(name, kind, id, awaitable, methods) ==
    [name |-> name, kind |-> kind, id |-> id, awaitable |-> awaitable, methods |-> methods]

LocalMember(file, which) ==
    IF localHooks[file][which] = "absent" THEN <<>>
    ELSE <<Member(which, localHooks[file][which], which, FALSE, <<>>)>>

ModuleDict(file) ==
    IF file = FileA THEN
        <<Member("test_1", "function", "a1", FALSE, <<>>)>>
        \o LocalMember(file, "setup")
        \o <<Member("test_2", "function", "a2", FALSE, <<>>)>>
        \o LocalMember(file, "teardown")
        \o <<Member("helper", "function", "ah", FALSE, <<>>),
             Member("test_data", "value", "ad", FALSE, <<>>)>>
    ELSE IF file = FileB THEN
        <<Member("TestC", "class", "bC", FALSE,
                 <<Member("test_m", "function", "bm", FALSE, <<>>),
                   Member("helper_m", "function", "bh", FALSE, <<>>),
                   Member("test_n", "function", "bn", TRUE, <<>>)>>)>>
        \o LocalMember(file, "setup")
        \o LocalMember(file, "teardown")
    ELSE <<Member("helper", "function", "hh", FALSE, <<>>)>>

\* name.startswith("test") and name.startswith("Test")
StartsWithTest(name) == name \in {"test_1", "test_2", "test_m", "test_n", "test_data"}
StartsWithCapitalTest(name) == name \in {"TestC"}
\* callable(item) or is_awaitable(item)
IsCallable(item) == item.kind \in {"function", "class"}

---------------------------------------------------------------------------
(* TestCase and TestModule                                                 *)

\* TestCase.__init__
TestCase(test_function, module_name, test_name, function_id) ==
    [test_function |-> test_function, module_name |-> module_name,
     test_name |-> test_name, function_id |-> function_id,
     status |-> PENDING, traceback |-> None, reason |-> None]

\* The callable a test case holds: the definition it ends up calling, and
\* whether is_awaitable says that it is to be awaited.
Callable(def, awaitable) == [calls |-> def, awaitable |-> awaitable]

RECURSIVE HarvestMethodsByWrapper(_, _, _, _)
\* The loop with the test case given the identity of the callable built to
\* invoke the method.
HarvestMethodsByWrapper(path, name, methods, tests) ==
    IF methods = <<>> THEN tests
    ELSE LET method == Head(methods)
             t == TestCase(Callable(method.id, method.awaitable), path,
                           <<name, method.name>>, "method_wrapper")
         IN  HarvestMethodsByWrapper(path, name, Tail(methods),
                 IF IsCallable(method) /\ StartsWithTest(method.name)
                 THEN Append(tests, t) ELSE tests)

RECURSIVE HarvestMethods(_, _, _, _)
\* The loop over item.__dict__ of a test class.
HarvestMethods(path, name, methods, tests) ==
    IF methods = <<>> THEN tests
    ELSE LET method == Head(methods)
             t == TestCase(Callable(method.id, method.awaitable), path,
                           <<name, method.name>>, method.id)
         IN  HarvestMethods(path, name, Tail(methods),
                 IF IsCallable(method) /\ StartsWithTest(method.name)
                 THEN Append(tests, t) ELSE tests)

\* The loop's pass with a local hook taken only where none was passed in.
HarvestItemKeepsGiven(path, item, m) ==
    IF ~IsCallable(item) THEN m
    ELSE IF StartsWithTest(item.name) THEN
        [m EXCEPT !.tests = Append(@,
            TestCase(Callable(item.id, item.awaitable), path, <<item.name>>, item.id))]
    ELSE IF item.kind = "class" /\ StartsWithCapitalTest(item.name) THEN
        [m EXCEPT !.tests = HarvestMethods(path, item.name, item.methods, @)]
    ELSE IF item.name = "setup" /\ m.setup = NoHook THEN
        [m EXCEPT !.setup = Hook("local", path, "setup")]
    ELSE IF item.name = "teardown" /\ m.teardown = NoHook THEN
        [m EXCEPT !.teardown = Hook("local", path, "teardown")]
    ELSE m

\* One pass of the loop over module.__dict__ of TestModule.__init__: what the
\* member `item` adds to the module m built so far.
HarvestItem(path, item, m) ==
    IF ~IsCallable(item) THEN m
    ELSE IF StartsWithTest(item.name) THEN
        [m EXCEPT !.tests = Append(@,
            TestCase(Callable(item.id, item.awaitable), path, <<item.name>>, item.id))]
    ELSE IF item.kind = "class" /\ StartsWithCapitalTest(item.name) THEN
        [m EXCEPT !.tests = HarvestMethods(path, item.name, item.methods, @)]
    ELSE IF item.name = "setup" THEN
        [m EXCEPT !.setup = Hook("local", path, "setup")]
    ELSE IF item.name = "teardown" THEN
        [m EXCEPT !.teardown = Hook("local", path, "teardown")]
    ELSE m

RECURSIVE Harvest(_, _, _)
\* The loop over module.__dict__ of TestModule.__init__.
Harvest(path, members, m) ==
    IF members = <<>> THEN m
    ELSE Harvest(path, Tail(members), HarvestItem(path, Head(members), m))

\* TestModule.__init__(path, module, setup, teardown); `given` keeps the hooks
\* the constructor was called with.
TestModule(path, setup, teardown) ==
    Harvest(path, ModuleDict(path),
            [path |-> path, setup |-> setup, teardown |-> teardown, tests |-> <<>>,
             given |-> <<setup, teardown>>])

\* test_names as a set, for the two "in test_names" of limit_tests_to.
NameSet(test_names) == {test_names[i] : i \in 1..Len(test_names)}

\* limit_tests_to with the full name compared only.
limit_tests_to_full_name(m, test_names) ==
    [m EXCEPT !.tests = SelectSeq(@, LAMBDA t : t.test_name \in NameSet(test_names))]

\* TestModule.limit_tests_to
limit_tests_to(m, test_names) ==
    [m EXCEPT !.tests = SelectSeq(@, LAMBDA t :
        t.test_name \in NameSet(test_names)
        \/ <<Head(t.test_name)>> \in NameSet(test_names))]

---------------------------------------------------------------------------
(* Conftest resolution and discover                                        *)

EmptyMap == [k \in {} |-> None]

\* os.path.exists(conftest_path)
ConftestExists(conftest_path) ==
    \E d \in Dirs : conftest_path = ConftestPath(d) /\ conftestFiles[d].exists

\* What gather_conftest_functions(conftest_path, target) returns.
gather_conftest_functions(conftest_path) ==
    IF ConftestExists(conftest_path) THEN
        LET dir == Parent(conftest_path)
            has(which) == which \in conftestFiles[dir].attrs
        IN  <<IF has("setup") THEN Hook("conftest", dir, "setup") ELSE NoHook,
              IF has("teardown") THEN Hook("conftest", dir, "teardown") ELSE NoHook>>
    ELSE <<NoHook, NoHook>>

\* The state discover and the imports it makes work on.
DiscoverState ==
    [conftests |-> conftests, gatherLog |-> gatherLog, modules |-> result,
     imported |-> imported, registry |-> SKIPPED_TESTS]

\* A call of gather_conftest_functions: it is logged, and the conftest found
\* is imported.
Gathered(D, conftest_path) ==
    [D EXCEPT !.gatherLog = Append(@, conftest_path),
              !.imported = IF ConftestExists(conftest_path)
                           THEN @ \cup {conftest_path} ELSE @]

\* "if str(conftest_path) not in conftests: conftests[...] = gather_...(...)"
Cached(D, conftest_path) ==
    IF conftest_path \in DOMAIN D.conftests THEN D
    ELSE [Gathered(D, conftest_path) EXCEPT
            !.conftests = (conftest_path :> gather_conftest_functions(conftest_path)) @@ @]

\* import_module(module_path) on the discover state.
Imported(D, module_path) ==
    LET st == import_module(module_path, <<D.imported, D.registry>>)
    IN  [D EXCEPT !.imported = st[1], !.registry = st[2]]

Outcome(err, D) == [err |-> err, D |-> D]

RECURSIVE NearestConftest(_)
\* The conftest path of the closest of dir and its ancestors that has one
\* (that of dir itself when none has).
NearestConftest(dir) ==
    IF ConftestExists(ConftestPath(dir)) \/ dir = <<>> THEN ConftestPath(dir)
    ELSE IF ConftestExists(NearestConftest(Parent(dir)))
         THEN NearestConftest(Parent(dir)) ELSE ConftestPath(dir)

\* The "::" branch with the conftest looked up through the ancestors.
DiscoverSelectorNearest(target, D) ==
    LET conftest_path == NearestConftest(Parent(target.path))
        D1 == Cached(D, conftest_path)
        hooks == D1.conftests[conftest_path]
    IN  IF Len(target.rest) # 1 THEN Outcome("ValueError", D1)
        ELSE IF ~Importable(target.path) THEN Outcome("ImportError", D1)
        ELSE LET D2 == Imported(D1, target.path)
                 module == limit_tests_to(
                               TestModule(target.path, hooks[1], hooks[2]),
                               target.rest[1])
             IN  Outcome(None, [D2 EXCEPT !.modules = Append(@, module)])

\* The "::" branch of discover's loop.
DiscoverSelector(target, D) ==
    LET conftest_path == ConftestPath(Parent(target.path))
        D1 == Cached(D, conftest_path)
        hooks == D1.conftests[conftest_path]
    IN  IF Len(target.rest) # 1 THEN Outcome("ValueError", D1)
        ELSE IF ~Importable(target.path) THEN Outcome("ImportError", D1)
        ELSE LET D2 == Imported(D1, target.path)
                 module == limit_tests_to(
                               TestModule(target.path, hooks[1], hooks[2]),
                               target.rest[1])
             IN  Outcome(None, [D2 EXCEPT !.modules = Append(@, module)])

RECURSIVE WalkModulesFallsBack(_, _, _, _)
\* The loop with a nested module given the target's hook where its own
\* directory's conftest has none.
WalkModulesFallsBack(paths, target, hooks, D) ==
    IF paths = <<>> THEN D
    ELSE LET module_path == Head(paths)
             D1 == Imported(D, module_path)
             parent_dir == Parent(module_path)
             conftest_path == ConftestPath(parent_dir)
             D2 == Cached(D1, conftest_path)
             own == D2.conftests[conftest_path]
             merged == [j \in 1..2 |-> IF own[j] # NoHook THEN own[j] ELSE hooks[j]]
         IN  IF parent_dir # target.path THEN
                 WalkModulesFallsBack(Tail(paths), target, hooks,
                     [D2 EXCEPT !.modules = Append(@,
                         TestModule(module_path, merged[1], merged[2]))])
             ELSE
                 WalkModulesFallsBack(Tail(paths), target, hooks,
                     [D1 EXCEPT !.modules = Append(@,
                         TestModule(module_path, hooks[1], hooks[2]))])

RECURSIVE WalkModules(_, _, _, _)
\* The loop over Path(target).rglob(pattern) of the directory branch.
WalkModules(paths, target, hooks, D) ==
    IF paths = <<>> THEN D
    ELSE LET module_path == Head(paths)
             D1 == Imported(D, module_path)
             parent_dir == Parent(module_path)
             conftest_path == ConftestPath(parent_dir)
             D2 == Cached(D1, conftest_path)
         IN  IF parent_dir # target.path THEN
                 WalkModules(Tail(paths), target, hooks,
                     [D2 EXCEPT !.modules = Append(@,
                         TestModule(module_path, D2.conftests[conftest_path][1],
                                    D2.conftests[conftest_path][2]))])
             ELSE
                 WalkModules(Tail(paths), target, hooks,
                     [D1 EXCEPT !.modules = Append(@,
                         TestModule(module_path, hooks[1], hooks[2]))])

\* The os.path.isdir branch of discover's loop.
DiscoverDirectory(target, D) ==
    LET conftest_path == ConftestPath(target.path)
        D1 == Cached(D, conftest_path)
    IN  Outcome(None, WalkModules(Rglob(target.path), target,
                                  D1.conftests[conftest_path], D1))

\* The else branch with no conftest looked up for the module.
DiscoverModuleNoConftest(target, D) ==
    IF ~Importable(target.path) THEN Outcome("ImportError", D)
    ELSE Outcome(None, [Imported(D, target.path) EXCEPT
             !.modules = Append(@, TestModule(target.path, NoHook, NoHook))])

\* The else branch of discover's loop: a single module.
DiscoverModule(target, D) ==
    LET conftest_path == ConftestPath(Parent(target.path))
        D1 == Gathered(D, conftest_path)
        hooks == gather_conftest_functions(conftest_path)
    IN  IF ~Importable(target.path) THEN Outcome("ImportError", D1)
        ELSE Outcome(None, [Imported(D1, target.path) EXCEPT
                 !.modules = Append(@, TestModule(target.path, hooks[1], hooks[2]))])

---------------------------------------------------------------------------
(* TestCase.run, shuffle and the record run() returns                      *)

\* parse_traceback_from_exception(ex): the rendered exception, whose last
\* line (the exception's kind and message) is never filtered out.
parse_traceback_from_exception == "Traceback (most recent call last): ..."

\* TestCase.run without the default for an empty reason.
TestCaseRunKeepsEmptyReason(t, registry, does) ==
    IF t.function_id \in DOMAIN registry THEN
        [t |-> [t EXCEPT !.status = SKIPPED, !.reason = registry[t.function_id]],
         invoked |-> FALSE, raised |-> FALSE]
    ELSE IF does = "returns" THEN
        [t |-> [t EXCEPT !.status = PASS], invoked |-> TRUE, raised |-> FALSE]
    ELSE IF does = "raisesException" THEN
        [t |-> [t EXCEPT !.status = FAIL,
                         !.traceback = "Traceback (most recent call last): ..."],
         invoked |-> TRUE, raised |-> FALSE]
    ELSE [t |-> t, invoked |-> TRUE, raised |-> TRUE]

\* TestCase.run without "self.status = PASS".
TestCaseRunForgetsPass(t, registry, does) ==
    IF t.function_id \in DOMAIN registry THEN
        [t |-> [t EXCEPT !.status = SKIPPED,
                         !.reason = IF registry[t.function_id] = ""
                                    THEN NoReasonGiven
                                    ELSE registry[t.function_id]],
         invoked |-> FALSE, raised |-> FALSE]
    ELSE IF does = "returns" THEN
        [t |-> t, invoked |-> TRUE, raised |-> FALSE]
    ELSE IF does = "raisesException" THEN
        [t |-> [t EXCEPT !.status = FAIL,
                         !.traceback = "Traceback (most recent call last): ..."],
         invoked |-> TRUE, raised |-> FALSE]
    ELSE [t |-> t, invoked |-> TRUE, raised |-> TRUE]

\* TestCase.run without "self.traceback = ...".
TestCaseRunDropsTraceback(t, registry, does) ==
    IF t.function_id \in DOMAIN registry THEN
        [t |-> [t EXCEPT !.status = SKIPPED,
                         !.reason = IF registry[t.function_id] = ""
                                    THEN NoReasonGiven
                                    ELSE registry[t.function_id]],
         invoked |-> FALSE, raised |-> FALSE]
    ELSE IF does = "returns" THEN
        [t |-> [t EXCEPT !.status = PASS], invoked |-> TRUE, raised |-> FALSE]
    ELSE IF does = "raisesException" THEN
        [t |-> [t EXCEPT !.status = FAIL], invoked |-> TRUE, raised |-> FALSE]
    ELSE [t |-> t, invoked |-> TRUE, raised |-> TRUE]

\* TestCase.run on test case t, whose callable does `does` when invoked:
\* the test case it leaves, whether the callable was invoked, and whether an
\* exception left run().
TestCaseRun(t, registry, does) ==
    IF t.function_id \in DOMAIN registry THEN
        [t |-> [t EXCEPT !.status = SKIPPED,
                         !.reason = IF registry[t.function_id] = ""
                                    THEN NoReasonGiven
                                    ELSE registry[t.function_id]],
         invoked |-> FALSE, raised |-> FALSE]
    ELSE IF does = "returns" THEN
        [t |-> [t EXCEPT !.status = PASS], invoked |-> TRUE, raised |-> FALSE]
    ELSE IF does = "raisesException" THEN
        [t |-> [t EXCEPT !.status = FAIL,
                         !.traceback = parse_traceback_from_exception],
         invoked |-> TRUE, raised |-> FALSE]
    ELSE [t |-> t, invoked |-> TRUE, raised |-> TRUE]

\* TestCase.as_dict
as_dict(t) ==
    [module_name |-> t.module_name, test_name |-> t.test_name,
     status |-> t.status, traceback |-> t.traceback, reason |-> t.reason]

\* The lists shuffle(a_list) can leave: the permutations of a_list.
shuffle(a_list) ==
    {[i \in 1..Len(a_list) |-> a_list[p[i]]] : p \in Permutations(1..Len(a_list))}

RECURSIVE SumTests(_)
\* sum([len(module.tests) for module in test_modules])
SumTests(modules) ==
    IF modules = <<>> THEN 0 ELSE Len(Head(modules).tests) + SumTests(Tail(modules))

\* The test case a reference <<module index, test index>> stands for.
TestAt(ref) == test_modules[ref[1]].tests[ref[2]]

\* The references of module m's test cases that have status s, in list order.
WithStatus(m, s) ==
    LET n == Len(test_modules[m].tests)
        refs == [i \in 1..n |-> <<m, i>>]
    IN  SelectSeq(refs, LAMBDA r : TestAt(r).status = s)

Snapshots(refs) == [i \in 1..Len(refs) |-> as_dict(TestAt(refs[i]))]

Event(ev, m, t, hook) == [ev |-> ev, m |-> m, t |-> t, hook |-> hook]

\* setup invoked once per module, before its first test case only.
StepBeforeTestSetupOnce(m, i) ==
    IF i > Len(m.tests) THEN "collect"
    ELSE IF m.setup # NoHook /\ i = 1 THEN "setup" ELSE "test"

\* The step of TestModule.run's loop that follows, for test case i of module m.
StepBeforeTest(m, i) ==
    IF i > Len(m.tests) THEN "collect"
    ELSE IF m.setup # NoHook THEN "setup" ELSE "test"
StepAfterTest(m) == IF m.teardown # NoHook THEN "teardown" ELSE "glyph"

---------------------------------------------------------------------------
(* The runs checked: what run() is given and what the file tree holds      *)

Target(isStr, path, rest) == [isStr |-> isStr, path |-> path, rest |-> rest]
TDir == Target(TRUE, DirD, <<>>)                                 \* "d"
TDirSub == Target(TRUE, DirSub, <<>>)                            \* "d/sub"
TModuleB == Target(TRUE, FileB, <<>>)                            \* "d/sub/test_b.py"
TSelectA == Target(TRUE, FileA, << <<(<<"test_1">>)>> >>)        \* "d/test_a.py::test_1"
TSelectB == Target(TRUE, FileB, << <<(<<"TestC">>)>> >>)         \* "d/sub/test_b.py::TestC"
TMissing == Target(TRUE, FileMissing, <<>>)                      \* "d/nope.py"
TSelectEmpty == Target(TRUE, FileA, << <<(<<"">>)>> >>)          \* "d/test_a.py::"
TSelectTwice == Target(TRUE, FileA, << <<(<<"x">>)>>, <<(<<"y">>)>> >>)  \* "d/test_a.py::x::y"
TNotAString == Target(FALSE, <<>>, <<>>)                         \* 42

GoodTargets == {TDir, TDirSub, TModuleB, TSelectA, TSelectB}
BadTargets == {TMissing, TSelectEmpty, TSelectTwice, TNotAString}
Targets == GoodTargets \cup BadTargets

\* A selector that the target grammar <path>::<name>[,<name>...] rejects.
MalformedSelector(target) ==
    /\ target.isStr
    /\ target.rest # <<>>
    /\ \/ Len(target.rest) # 1
       \/ target.path = <<>>
       \/ \E i \in 1..Len(target.rest[1]) : target.rest[1][i] = <<"">>

ArgLists(n) == UNION {[1..k -> Targets] : k \in 0..n}

Conftest(exists, attrs) == [exists |-> exists, attrs |-> attrs]
ConftestKinds ==
    {Conftest(FALSE, {})} \cup {Conftest(TRUE, a) : a \in SUBSET {"setup", "teardown"}}
FullConftests == [d \in Dirs |-> Conftest(TRUE, {"setup", "teardown"})]

LocalKinds == [setup : MemberKinds, teardown : MemberKinds]
NoLocalHooks == [f \in Files |-> [setup |-> "absent", teardown |-> "absent"]]
LocalLayouts ==
    {[f \in Files |-> IF f = FileA THEN a ELSE IF f = FileB THEN b
                      ELSE [setup |-> "absent", teardown |-> "absent"]] :
        a \in LocalKinds, b \in LocalKinds}

\* The largest number of skip markers written in the suite.
MaxMarkers == 2
Marker(reason, skip_when) == [reason |-> reason, skip_when |-> skip_when]
Markers == {Marker(r, w) : r \in Reasons, w \in BOOLEAN}
MarkerLists(n) == UNION {[1..k -> Markers] : k \in 0..n}
NoMarks == [d \in Defs |-> <<>>]
\* The markers are written on a function (a1) and on a method (bm).
MarkedSuites ==
    {[d \in Defs |-> IF d = "a1" THEN xy[1] ELSE IF d = "bm" THEN xy[2] ELSE <<>>] :
        xy \in {p \in MarkerLists(MaxMarkers) \X MarkerLists(MaxMarkers) :
                    Len(p[1]) + Len(p[2]) <= MaxMarkers}}

\* One test that passes and one that fails, as in tests/inner_tests/test_inner.py.
PlainBodies ==
    [d \in Defs |-> IF d = "a2" THEN "raisesException" ELSE "returns"]

RunInit ==
    /\ pc = "args"
    /\ error = None
    /\ ti = 0
    /\ conftests = EmptyMap
    /\ result = <<>>
    /\ test_modules = <<>>
    /\ test_count = 0
    /\ imported = {}
    /\ SKIPPED_TESTS = EmptyMap
    /\ gatherLog = <<>>
    /\ mi = 0
    /\ tci = 0
    /\ phase = "header"
    /\ trace = <<>>
    /\ glyphs = <<>>
    /\ invoked = {}
    /\ passed_tests = <<>>
    /\ failed_tests = <<>>
    /\ skipped_tests = <<>>
    /\ returned = <<>>

\* Every list of targets, on a file tree with or without a conftest in d/sub.
TargetRuns ==
    /\ args \in ArgLists(MaxTargets)
    /\ randomize = FALSE
    /\ conftestFiles \in {FullConftests,
                          [FullConftests EXCEPT ![DirSub] = Conftest(FALSE, {})]}
    /\ localHooks = NoLocalHooks
    /\ marks = NoMarks
    /\ body = PlainBodies

\* Every layout of conftest and local hooks, for one target of each form.
LayoutRuns ==
    /\ args \in {<<t>> : t \in GoodTargets}
    /\ randomize = FALSE
    /\ conftestFiles \in [Dirs -> ConftestKinds]
    /\ localHooks \in LocalLayouts
    /\ marks = NoMarks
    /\ body = PlainBodies

\* Every way of marking and every behaviour of the marked tests.
MarkedRuns ==
    /\ args \in {<<TDir>>, <<TSelectB>>}
    /\ randomize = FALSE
    /\ conftestFiles = FullConftests
    /\ localHooks = NoLocalHooks
    /\ marks \in MarkedSuites
    /\ body \in {[PlainBodies EXCEPT !["a1"] = x, !["bm"] = y] :
                    x \in Outcomes, y \in Outcomes}

\* Every way of marking the two methods of the test class, the plain one and
\* the suspending one, and what each does when run.
MethodRuns ==
    /\ args \in {<<TDir>>, <<TSelectB>>, <<TModuleB>>}
    /\ randomize = FALSE
    /\ conftestFiles = FullConftests
    /\ localHooks = NoLocalHooks
    /\ marks \in {[NoMarks EXCEPT !["bm"] = x, !["bn"] = y] :
                     x \in MarkerLists(1), y \in MarkerLists(1)}
    /\ body \in {[PlainBodies EXCEPT !["bm"] = x, !["bn"] = y] :
                    x \in {"returns", "raisesException"},
                    y \in {"returns", "raisesException"}}

\* The module d/sub/test_b.py reached through a directory, a selector and
\* its own path in one run, on every layout of conftests.
FormRuns ==
    /\ args = <<TDir, TSelectB, TModuleB>>
    /\ randomize = FALSE
    /\ conftestFiles \in [Dirs -> ConftestKinds]
    /\ localHooks = NoLocalHooks
    /\ marks = NoMarks
    /\ body = PlainBodies

\* Every behaviour of the test callables, in order and shuffled.
BodyRuns ==
    /\ args \in {<<TDir>>, <<TSelectA, TModuleB>>}
    /\ randomize \in BOOLEAN
    /\ conftestFiles = FullConftests
    /\ localHooks = NoLocalHooks
    /\ marks = NoMarks
    /\ body \in [Defs -> Outcomes]

\* The first call of run() in a fresh interpreter.
FirstRun == runs = 1 /\ first = <<>>

LimitIdle == limited = <<>> /\ names = <<>> /\ kept = <<>>

\* No guard: the value of `guard` before and without a construction.
NoGuard == [expected_exceptions |-> <<>>, exception |-> None, traceback |-> None,
            made |-> FALSE]
\* No exception: the value of `guard_error` while the guard has raised nothing.
NoError == [kind |-> None, message |-> <<>>]
GuardIdle ==
    /\ expected = <<>>
    /\ guard = NoGuard
    /\ guard_pc = "idle"
    /\ guard_error = NoError
    /\ block = None

ShuffleIdle == unshuffled = <<>> /\ shuffled = <<>> /\ fy_i = 0 /\ picked = <<>>

\* Every call is taken as one step: nothing is ever in flight.
AwaitIdle == inflight = {} /\ completed = {} /\ hanging = {}

Init ==
    /\ TargetRuns \/ LayoutRuns \/ MarkedRuns \/ MethodRuns \/ FormRuns \/ BodyRuns
    /\ RunInit
    /\ FirstRun
    /\ LimitIdle
    /\ GuardIdle
    /\ ShuffleIdle
    /\ AwaitIdle

---------------------------------------------------------------------------
(* run(): the arguments and discover                                       *)

\* run(), the loop over args: a non-string argument raises ValueError.
RunArgs ==
    /\ pc = "args"
    /\ IF \E i \in 1..Len(args) : ~args[i].isStr
       THEN pc' = "error" /\ error' = "ValueError" /\ ti' = ti
       ELSE pc' = "discover" /\ error' = error /\ ti' = 1
    /\ UNCHANGED <<aside, fixture, discovery, running>>

\* One pass of discover's loop, with the outcome `out` of its branch.
DiscoverStep(out) ==
    /\ conftests' = out.D.conftests
    /\ gatherLog' = out.D.gatherLog
    /\ result' = out.D.modules
    /\ imported' = out.D.imported
    /\ SKIPPED_TESTS' = out.D.registry
    /\ IF out.err = None
       THEN pc' = pc /\ error' = error /\ ti' = ti + 1
       ELSE pc' = "error" /\ error' = out.err /\ ti' = ti
    /\ UNCHANGED <<aside, fixture, running>>

DiscoverSelectorTarget ==
    /\ pc = "discover" /\ ti <= Len(args)
    /\ args[ti].rest # <<>>
    /\ DiscoverStep(DiscoverSelector(args[ti], DiscoverState))

DiscoverDirectoryTarget ==
    /\ pc = "discover" /\ ti <= Len(args)
    /\ args[ti].rest = <<>> /\ IsDir(args[ti].path)
    /\ DiscoverStep(DiscoverDirectory(args[ti], DiscoverState))

DiscoverModuleTarget ==
    /\ pc = "discover" /\ ti <= Len(args)
    /\ args[ti].rest = <<>> /\ ~IsDir(args[ti].path)
    /\ DiscoverStep(DiscoverModule(args[ti], DiscoverState))

\* discover returns its list to run().
DiscoverReturn ==
    /\ pc = "discover" /\ ti > Len(args)
    /\ test_modules' = result
    /\ pc' = "prepare"
    /\ UNCHANGED <<aside, fixture, discovery, error, ti, test_count, mi, tci, phase, trace,
                   glyphs, invoked, passed_tests, failed_tests, skipped_tests, returned>>

\* run() shuffling the module list whatever randomize is.
RunPrepareAlwaysShuffles ==
    /\ pc = "prepare"
    /\ test_modules' \in shuffle(test_modules)
    /\ test_count' = SumTests(test_modules')
    /\ mi' = 1
    /\ phase' = "header"
    /\ pc' = "run"
    /\ UNCHANGED <<aside, fixture, discovery, error, ti, tci, trace, glyphs, invoked,
                   passed_tests, failed_tests, skipped_tests, returned>>

\* run(): the module list is shuffled when asked, and the tests are counted.
RunPrepare ==
    /\ pc = "prepare"
    /\ test_modules' \in (IF randomize THEN shuffle(test_modules) ELSE {test_modules})
    /\ test_count' = SumTests(test_modules')
    /\ mi' = 1
    /\ phase' = "header"
    /\ pc' = "run"
    /\ UNCHANGED <<aside, fixture, discovery, error, ti, tci, trace, glyphs, invoked,
                   passed_tests, failed_tests, skipped_tests, returned>>

---------------------------------------------------------------------------
(* run(): the module loop, and TestModule.run                              *)

InModule == pc = "run" /\ mi <= Len(test_modules)
Module == test_modules[mi]

\* TestModule.run shuffling its tests whatever randomize is.
ModuleHeaderAlwaysShuffles ==
    /\ InModule /\ phase = "header"
    /\ \E tests \in shuffle(Module.tests) :
          /\ test_modules' = [test_modules EXCEPT ![mi].tests = tests]
          /\ tci' = 1
          /\ phase' = StepBeforeTest(test_modules'[mi], 1)
    /\ UNCHANGED <<aside, fixture, discovery, pc, error, ti, test_count, mi, trace, glyphs,
                   invoked, passed_tests, failed_tests, skipped_tests, returned>>

\* TestModule.run: the header is printed and the tests shuffled when asked.
ModuleHeader ==
    /\ InModule /\ phase = "header"
    /\ \E tests \in (IF randomize THEN shuffle(Module.tests) ELSE {Module.tests}) :
          /\ test_modules' = [test_modules EXCEPT ![mi].tests = tests]
          /\ tci' = 1
          /\ phase' = StepBeforeTest(test_modules'[mi], 1)
    /\ UNCHANGED <<aside, fixture, discovery, pc, error, ti, test_count, mi, trace, glyphs,
                   invoked, passed_tests, failed_tests, skipped_tests, returned>>

\* A hook invoked under a try that catches what it raises and goes on.
InvokeHookCaught(ev, hook, then) ==
    /\ trace' = Append(trace, Event(ev, mi, tci, hook))
    /\ \E does \in HookOutcomes :
          IF does = "returns"
          THEN pc' = pc /\ error' = error /\ phase' = then
          ELSE pc' = pc /\ error' = "HookError" /\ phase' = then
    /\ UNCHANGED <<aside, fixture, discovery, ti, test_modules, test_count, mi, tci, glyphs,
                   invoked, passed_tests, failed_tests, skipped_tests, returned>>

\* A hook is invoked (and awaited when it suspends): it returns, or it
\* raises and the exception leaves TestModule.run and run().
InvokeHook(ev, hook, then) ==
    /\ trace' = Append(trace, Event(ev, mi, tci, hook))
    /\ \E does \in HookOutcomes :
          IF does = "returns"
          THEN pc' = pc /\ error' = error /\ phase' = then
          ELSE pc' = "error" /\ error' = "HookError" /\ phase' = phase
    /\ UNCHANGED <<aside, fixture, discovery, ti, test_modules, test_count, mi, tci, glyphs,
                   invoked, passed_tests, failed_tests, skipped_tests, returned>>

\* "if self.setup: ..." of TestModule.run
RunSetup ==
    /\ InModule /\ phase = "setup"
    /\ InvokeHook("setup", Module.setup, "test")

\* "await test_case.run()" of TestModule.run
RunTestCase ==
    /\ InModule /\ phase = "test"
    /\ LET r == TestCaseRun(Module.tests[tci], SKIPPED_TESTS,
                            body[Module.tests[tci].test_function.calls])
       IN  /\ test_modules' = [test_modules EXCEPT ![mi].tests[tci] = r.t]
           /\ invoked' = IF r.invoked THEN invoked \cup {<<mi, tci>>} ELSE invoked
           /\ trace' = Append(trace, Event("test", mi, tci, NoHook))
           /\ IF r.raised
              THEN pc' = "error" /\ error' = "BaseException" /\ phase' = phase
              ELSE pc' = pc /\ error' = error /\ phase' = StepAfterTest(Module)
    /\ UNCHANGED <<aside, fixture, discovery, ti, test_count, mi, tci, glyphs,
                   passed_tests, failed_tests, skipped_tests, returned>>

\* "if self.teardown: ..." of TestModule.run
RunTeardown ==
    /\ InModule /\ phase = "teardown"
    /\ InvokeHook("teardown", Module.teardown, "glyph")

\* The glyph TestModule.run prints for a test case's status.
Glyph(status) == IF status = SKIPPED THEN "S" ELSE IF status = PASS THEN "." ELSE "F"

\* The status glyph is printed and the loop goes to the next test case.
PrintGlyph ==
    /\ InModule /\ phase = "glyph"
    /\ glyphs' = Append(glyphs, Glyph(Module.tests[tci].status))
    /\ tci' = tci + 1
    /\ phase' = StepBeforeTest(Module, tci + 1)
    /\ UNCHANGED <<aside, fixture, discovery, pc, error, ti, test_modules, test_count, mi,
                   trace, invoked, passed_tests, failed_tests, skipped_tests, returned>>

\* The sorting with the skipped test cases left out.
CollectModuleDropsSkipped ==
    /\ InModule /\ phase = "collect"
    /\ failed_tests' = failed_tests \o WithStatus(mi, FAIL)
    /\ skipped_tests' = skipped_tests
    /\ passed_tests' = passed_tests \o WithStatus(mi, PASS)
    /\ mi' = mi + 1
    /\ phase' = "header"
    /\ UNCHANGED <<aside, fixture, discovery, pc, error, ti, test_modules, test_count, tci,
                   trace, glyphs, invoked, returned>>

\* run(): the module's test cases are sorted into the three lists.
CollectModule ==
    /\ InModule /\ phase = "collect"
    /\ failed_tests' = failed_tests \o WithStatus(mi, FAIL)
    /\ skipped_tests' = skipped_tests \o WithStatus(mi, SKIPPED)
    /\ passed_tests' = passed_tests \o WithStatus(mi, PASS)
    /\ mi' = mi + 1
    /\ phase' = "header"
    /\ UNCHANGED <<aside, fixture, discovery, pc, error, ti, test_modules, test_count, tci,
                   trace, glyphs, invoked, returned>>

\* The counts of run()'s summary line.
error_count == Len(failed_tests)
skip_count == Len(skipped_tests)
pass_count == test_count - error_count - skip_count

\* The record run() returns.
RunResult ==
    [randomize |-> randomize,
     passes |-> Snapshots(passed_tests),
     fails |-> Snapshots(failed_tests),
     skipped |-> Snapshots(skipped_tests)]

\* run(): every module has run; the report is printed and the result returned.
RunReturn ==
    /\ pc = "run" /\ mi > Len(test_modules)
    /\ returned' = <<RunResult>>
    /\ pc' = "done"
    /\ UNCHANGED <<aside, fixture, discovery, error, ti, test_modules, test_count, mi, tci,
                   phase, trace, glyphs, invoked, passed_tests, failed_tests,
                   skipped_tests>>

Next ==
    \/ RunArgs
    \/ DiscoverSelectorTarget
    \/ DiscoverDirectoryTarget
    \/ DiscoverModuleTarget
    \/ DiscoverReturn
    \/ RunPrepare
    \/ ModuleHeader
    \/ RunSetup
    \/ RunTestCase
    \/ RunTeardown
    \/ PrintGlyph
    \/ CollectModule
    \/ RunReturn

Spec == Init /\ [][Next]_vars

---------------------------------------------------------------------------
(* run() called a second time on the same suite                            *)

\* run() is called again with the same arguments once its first call has
\* returned: in the same interpreter, where the modules imported and the
\* skip registry are still there, or in a new one.
RunAgain ==
    /\ pc = "done" /\ runs = 1 /\ ~randomize
    /\ first' = returned
    /\ runs' = 2
    /\ \E fresh \in BOOLEAN :
          /\ imported' = IF fresh THEN {} ELSE imported
          /\ SKIPPED_TESTS' = IF fresh THEN EmptyMap ELSE SKIPPED_TESTS
    /\ pc' = "args"
    /\ error' = None
    /\ ti' = 0
    /\ conftests' = EmptyMap
    /\ result' = <<>>
    /\ test_modules' = <<>>
    /\ test_count' = 0
    /\ gatherLog' = <<>>
    /\ mi' = 0
    /\ tci' = 0
    /\ phase' = "header"
    /\ trace' = <<>>
    /\ glyphs' = <<>>
    /\ invoked' = {}
    /\ passed_tests' = <<>>
    /\ failed_tests' = <<>>
    /\ skipped_tests' = <<>>
    /\ returned' = <<>>
    /\ UNCHANGED <<fixture, limiting, guarding, shuffling, awaiting>>

TwiceNext == Next \/ RunAgain

TwiceSpec == Init /\ [][TwiceNext]_vars

---------------------------------------------------------------------------
(* run() with its calls followed from their start to their end             *)

\* The call TestModule.run makes at its current step: the setup hook, the
\* test case's callable, or the teardown hook.
CurrentCall ==
    Event(phase, mi, tci,
          IF phase = "setup" THEN Module.setup
          ELSE IF phase = "teardown" THEN Module.teardown
          ELSE NoHook)

\* The callable a call runs: the hook, or the definition behind the test case.
Callee(c) ==
    IF c.ev = "test"
    THEN Hook("def", test_modules[c.m].path, test_modules[c.m].tests[c.t].test_function.calls)
    ELSE c.hook

\* The current step calls something: a hook, or the callable of a test case
\* that is not skipped.
Invokes ==
    /\ InModule
    /\ phase \in {"setup", "test", "teardown"}
    /\ phase = "test" =>
          TestCaseRun(Module.tests[tci], SKIPPED_TESTS,
                      body[Module.tests[tci].test_function.calls]).invoked

Started(c) == c \in inflight \cup completed

\* The runner going on without waiting for what it has started.
ResumedAtOnce == TRUE

\* The runner goes on only when what it called has completed: the call is a
\* plain call, or it is awaited.
Resumed == inflight = {}

\* The hook or the test callable of the current step is called.
StartCall ==
    /\ Resumed
    /\ Invokes
    /\ ~Started(CurrentCall)
    /\ inflight' = inflight \cup {CurrentCall}
    /\ UNCHANGED <<fixture, pc, error, ti, discovery, running, history, limiting,
                   guarding, shuffling, completed, hanging>>

\* A call in flight completes, by returning or by raising, unless its
\* callable is one that never does.
CallCompletes ==
    /\ \E c \in inflight :
          /\ Callee(c) \notin hanging
          /\ inflight' = inflight \ {c}
          /\ completed' = completed \cup {c}
    /\ UNCHANGED <<fixture, pc, error, ti, discovery, running, history, limiting,
                   guarding, shuffling, hanging>>

\* run() can take its next step: at a step that calls something the call
\* has been made, and the runner has its outcome.
Goes ==
    /\ Resumed
    /\ Invokes => Started(CurrentCall)

\* The steps of run(), each taken when the runner can go on.
Runner ==
    \/ Goes /\ RunArgs
    \/ Goes /\ DiscoverSelectorTarget
    \/ Goes /\ DiscoverDirectoryTarget
    \/ Goes /\ DiscoverModuleTarget
    \/ Goes /\ DiscoverReturn
    \/ Goes /\ RunPrepare
    \/ Goes /\ ModuleHeader
    \/ Goes /\ RunSetup
    \/ Goes /\ RunTestCase
    \/ Goes /\ RunTeardown
    \/ Goes /\ PrintGlyph
    \/ Goes /\ CollectModule
    \/ Goes /\ RunReturn

\* The callables that may never complete: a plain test, the suspending
\* test method, a setup hook, a teardown hook.
Hangers ==
    {Hook("def", FileA, "a2"), Hook("def", FileB, "bn"),
     Hook("conftest", DirSub, "setup"), Hook("conftest", DirD, "teardown")}

\* Runs in order and shuffled, with one test skipped or none, one test
\* behaving in each way, and one callable or none that never completes.
AsyncInit ==
    /\ args \in {<<TDir>>, <<TSelectA, TModuleB>>}
    /\ randomize \in BOOLEAN
    /\ conftestFiles = FullConftests
    /\ localHooks = NoLocalHooks
    /\ marks \in {NoMarks, [NoMarks EXCEPT !["bm"] = <<Marker("flaky", TRUE)>>]}
    /\ body \in {[PlainBodies EXCEPT ![d] = x] : d \in Defs, x \in Outcomes}
    /\ RunInit
    /\ FirstRun
    /\ LimitIdle
    /\ GuardIdle
    /\ ShuffleIdle
    /\ inflight = {}
    /\ completed = {}
    /\ hanging \in {{}} \cup {{h} : h \in Hangers}

AsyncNext == StartCall \/ CallCompletes \/ Runner

AsyncSpec == AsyncInit /\ [][AsyncNext]_vars

\* The event loop runs whatever can run: a step that stays possible is taken.
FairAsyncSpec == AsyncSpec /\ WF_vars(AsyncNext)

---------------------------------------------------------------------------
(* limit_tests_to on its own: a harvested module is filtered by a list of  *)
(* names, again and again                                                  *)

\* The variables of run(), left alone while a function is checked on its own.
program == <<fixture, pc, error, ti, discovery, running, history, awaiting>>
ProgramIdle ==
    /\ args = <<>>
    /\ randomize = FALSE
    /\ conftestFiles = FullConftests
    /\ localHooks = NoLocalHooks
    /\ marks = NoMarks
    /\ body = PlainBodies
    /\ RunInit
    /\ FirstRun
    /\ AwaitIdle

\* The largest number of names given to limit_tests_to, and of its calls.
MaxNames == 2
MaxCalls == 2

\* The names asked for: functions, a class, a method by its full and by its
\* bare name, a name no test has, and the empty name.
TestNames ==
    {<<"test_1">>, <<"test_2">>, <<"TestC">>, <<"TestC", "test_m">>,
     <<"test_m">>, <<"nope">>, <<"">>}
NameLists(n) == UNION {[1..k -> TestNames] : k \in 0..n}

LimitInit ==
    /\ ProgramIdle
    /\ \E path \in {FileA, FileB} : limited = TestModule(path, NoHook, NoHook)
    /\ names \in NameLists(MaxNames)
    /\ kept = <<limited.tests>>
    /\ GuardIdle
    /\ ShuffleIdle

\* module.limit_tests_to(test_names)
LimitTestsTo ==
    /\ Len(kept) <= MaxCalls
    /\ limited' = limit_tests_to(limited, names)
    /\ kept' = Append(kept, limited'.tests)
    /\ UNCHANGED <<program, names, guarding, shuffling>>

LimitNext == LimitTestsTo

LimitSpec == LimitInit /\ [][LimitNext]_vars

---------------------------------------------------------------------------
(* raises on its own: a guard is constructed, entered and left             *)

\* The exception classes, a class that is no exception, and each class's base.
Throwables ==
    {"BaseException", "Exception", "LookupError", "KeyError", "ValueError", "SystemExit"}
Classes == Throwables \cup {"object", "int"}
Base(cls) ==
    CASE cls = "KeyError" -> "LookupError"
      [] cls \in {"LookupError", "ValueError"} -> "Exception"
      [] cls \in {"Exception", "SystemExit"} -> "BaseException"
      [] OTHER -> "object"

RECURSIVE issubclass(_, _)
\* issubclass(cls, classinfo), for a class cls.
issubclass(cls, classinfo) ==
    IF cls = classinfo THEN TRUE
    ELSE IF cls = "object" THEN FALSE
    ELSE issubclass(Base(cls), classinfo)

\* ex.__name__
Name(cls) == cls
\* The instance of a class that a raise statement raises.
Instance(cls) == [kind |-> cls, args |-> <<"boom">>]

Raised(kind, message) == [kind |-> kind, message |-> message]

\* raises.__init__ with the arguments taken as they come.
raises_init_unchecked(expected_exceptions) ==
    IF expected_exceptions = <<>> THEN
        [error |-> Raised("ValueError", <<"Missing expected exceptions.">>),
         guard |-> NoGuard]
    ELSE [error |-> NoError,
          guard |-> [expected_exceptions |-> expected_exceptions,
                     exception |-> None, traceback |-> None, made |-> TRUE]]

\* raises.__init__(*expected_exceptions): the exception it raises, or the
\* guard it leaves.
raises_init(expected_exceptions) ==
    LET bad == {i \in 1..Len(expected_exceptions) :
                   \/ expected_exceptions[i] \notin Classes
                   \/ ~issubclass(expected_exceptions[i], "BaseException")}
        ex == expected_exceptions[CHOOSE i \in bad : \A k \in bad : i <= k]
    IN  IF expected_exceptions = <<>> THEN
            [error |-> Raised("ValueError", <<"Missing expected exceptions.">>),
             guard |-> NoGuard]
        ELSE IF bad # {} THEN
            [error |-> Raised("TypeError",
                           IF ex \in Classes THEN <<ex, " is not an Exception.">>
                           ELSE <<"issubclass() arg 1 must be a class">>),
             guard |-> NoGuard]
        ELSE [error |-> NoError,
              guard |-> [expected_exceptions |-> expected_exceptions,
                         exception |-> None, traceback |-> None, made |-> TRUE]]

RECURSIVE Join(_, _)
\* sep.join(strings), as the pieces of the string.
Join(sep, strings) ==
    IF strings = <<>> THEN <<>>
    ELSE IF Len(strings) = 1 THEN strings
    ELSE <<Head(strings), sep>> \o Join(sep, Tail(strings))

\* The assertion failure of raises.__exit__, for what the block raised.
DidNotRaise(expected_exceptions, ex_type) ==
    Raised("AssertionError",
           <<"Did not raise expected exception.", " Expected ">>
           \o Join(", ", [i \in 1..Len(expected_exceptions) |-> Name(expected_exceptions[i])])
           \o <<"; but got ", IF ex_type # None THEN Name(ex_type) ELSE "None", ".">>)

\* raises.__exit__ taking a subclass of an expected class as expected.
raises_exit_subclass(g, ex_type) ==
    IF ex_type = None
       \/ ~\E i \in 1..Len(g.expected_exceptions) :
               issubclass(ex_type, g.expected_exceptions[i])
    THEN [error |-> DidNotRaise(g.expected_exceptions, ex_type), guard |-> g]
    ELSE [error |-> NoError,
          guard |-> [g EXCEPT !.exception = Instance(ex_type), !.traceback = "ex_tb"]]

\* raises.__exit__(ex_type, ex_value, ex_tb) on guard g: the assertion it
\* raises, or the guard it leaves when it returns True.
raises_exit(g, ex_type) ==
    IF ~\E i \in 1..Len(g.expected_exceptions) : g.expected_exceptions[i] = ex_type
    THEN [error |-> DidNotRaise(g.expected_exceptions, ex_type), guard |-> g]
    ELSE [error |-> NoError,
          guard |-> [g EXCEPT !.exception = Instance(ex_type), !.traceback = "ex_tb"]]

\* The largest number of arguments given to raises(...).
MaxExpected == 2
\* What raises(...) is given: exception classes, a class that is no
\* exception, and a value that is no class.
GuardArgs == {"Exception", "LookupError", "KeyError", "ValueError", "int", "5"}
ExpectedLists(n) == UNION {[1..k -> GuardArgs] : k \in 0..n}
\* What the block under the guard raises: nothing, or an exception of a class.
BlockRaises == {None, "KeyError", "LookupError", "ValueError", "SystemExit"}

GuardInit ==
    /\ ProgramIdle
    /\ LimitIdle
    /\ ShuffleIdle
    /\ expected \in ExpectedLists(MaxExpected)
    /\ guard = NoGuard
    /\ guard_pc = "new"
    /\ guard_error = NoError
    /\ block = None

\* raises(*expected)
RaisesNew ==
    /\ guard_pc = "new"
    /\ LET r == raises_init(expected)
       IN  /\ guard' = r.guard
           /\ guard_error' = r.error
           /\ guard_pc' = IF r.error = NoError THEN "made" ELSE "failed"
    /\ UNCHANGED <<program, limiting, shuffling, expected, block>>

\* raises.__enter__
RaisesEnter ==
    /\ guard_pc = "made"
    /\ guard_pc' = "entered"
    /\ UNCHANGED <<program, limiting, shuffling, expected, guard, guard_error, block>>

\* The block runs and the with statement calls raises.__exit__.
RaisesExit ==
    /\ guard_pc = "entered"
    /\ \E ex_type \in BlockRaises :
          LET r == raises_exit(guard, ex_type)
          IN  /\ block' = ex_type
              /\ guard' = r.guard
              /\ guard_error' = r.error
              /\ guard_pc' = IF r.error = NoError THEN "left" ELSE "raised"
    /\ UNCHANGED <<program, limiting, shuffling, expected>>

GuardNext == RaisesNew \/ RaisesEnter \/ RaisesExit

GuardSpec == GuardInit /\ [][GuardNext]_vars

---------------------------------------------------------------------------
(* shuffle on its own: the Fisher-Yates loop used where random has no      *)
(* shuffle; positions are counted from 0 as in the code                    *)

\* The values random.randrange(n) can return.
randrange(n) == 0..(n - 1)

\* The values of j drawn from one position too few.
DrawsBelow(i) == randrange(i)

\* "j = random.randrange(i + 1)": the values j can take at position i.
Draws(i) == randrange(i + 1)

\* "a_list[i], a_list[j] = a_list[j], a_list[i]"
Swap(list, i, j) == [list EXCEPT ![i + 1] = list[j + 1], ![j + 1] = list[i + 1]]

RECURSIVE FisherYates(_, _, _)
\* The loop from position i down to 1 with the values of j in js, in turn.
FisherYates(list, i, js) ==
    IF i < 1 THEN list
    ELSE FisherYates(Swap(list, i, Head(js)), i - 1, Tail(js))

\* The longest list shuffled.
MaxLen == 4
\* The lists shuffled: of distinct elements, of elements in pairs, and of
\* one element repeated.
ShuffleInputs ==
    UNION {{[k \in 1..n |-> k], [k \in 1..n |-> (k + 1) \div 2], [k \in 1..n |-> 1]} :
              n \in 0..MaxLen}

ShuffleInit ==
    /\ ProgramIdle
    /\ LimitIdle
    /\ GuardIdle
    /\ unshuffled \in ShuffleInputs
    /\ shuffled = unshuffled
    /\ fy_i = Len(unshuffled) - 1
    /\ picked = <<>>

\* One pass of "for i in range(len(a_list) - 1, 0, -1)".
FisherYatesStep ==
    /\ fy_i >= 1
    /\ \E j \in Draws(fy_i) :
          /\ shuffled' = Swap(shuffled, fy_i, j)
          /\ picked' = Append(picked, j)
    /\ fy_i' = fy_i - 1
    /\ UNCHANGED <<program, limiting, guarding, unshuffled>>

ShuffleNext == FisherYatesStep

ShuffleSpec == ShuffleInit /\ [][ShuffleNext]_vars

---------------------------------------------------------------------------
(* What the claims below speak of                                          *)

Terminal == {PASS, FAIL, SKIPPED}

\* The references <<module index, test index>> of the test cases run() holds.
Refs ==
    UNION {{<<m, t>> : t \in 1..Len(test_modules[m].tests)} :
              m \in 1..Len(test_modules)}

\* TestCase.run has been called on the test case.
Ran(ref) ==
    \E i \in 1..Len(trace) :
        trace[i].ev = "test" /\ trace[i].m = ref[1] /\ trace[i].t = ref[2]

\* The definition the test case's callable calls, and what it does.
DefOf(ref) == TestAt(ref).test_function.calls

\* The events of one test case: setup when present, the test, teardown when present.
Group(m, t) ==
    (IF test_modules[m].setup # NoHook
     THEN <<Event("setup", m, t, test_modules[m].setup)>> ELSE <<>>)
    \o <<Event("test", m, t, NoHook)>>
    \o (IF test_modules[m].teardown # NoHook
        THEN <<Event("teardown", m, t, test_modules[m].teardown)>> ELSE <<>>)

RECURSIVE GroupsFrom(_, _)
\* The groups of test case t of module m and of all the test cases after it.
GroupsFrom(m, t) ==
    IF m > Len(test_modules) THEN <<>>
    ELSE IF t > Len(test_modules[m].tests) THEN GroupsFrom(m + 1, 1)
    ELSE Group(m, t) \o GroupsFrom(m, t + 1)

StartsWith(long, short) ==
    Len(short) <= Len(long) /\ SubSeq(long, 1, Len(short)) = short

---------------------------------------------------------------------------
(* C1..C6: TestModule.run, TestCase.run and the skip marker                *)

\* C1: the hooks and test cases run are, in order, the groups (setup, test,
\* teardown) of the test cases, one group per test case with the module's own
\* hooks; once a test case's glyph is due its group is complete whatever its
\* status, and a run that returns has run every group.
C1_HooksBracketEachTest ==
    /\ StartsWith(GroupsFrom(1, 1), trace)
    /\ (InModule /\ phase = "glyph") =>
           trace \o GroupsFrom(mi, tci + 1) = GroupsFrom(1, 1)
    /\ (InModule /\ phase = "collect") =>
           trace \o GroupsFrom(mi + 1, 1) = GroupsFrom(1, 1)
    /\ pc = "done" => trace = GroupsFrom(1, 1)

\* A module with both hooks has run a test that passed, one that failed and
\* one that was skipped, and run() returned.
C1_Witness ==
    /\ pc = "done"
    /\ \A m \in 1..Len(test_modules) :
          test_modules[m].setup # NoHook /\ test_modules[m].teardown # NoHook
    /\ \A s \in Terminal : \E ref \in Refs : TestAt(ref).status = s
    /\ Len(trace) = 3 * test_count

\* C2: a test callable that raises, whatever it raises, leaves its test case
\* failed with a traceback, and the exception does not leave TestCase.run.
C2_AnyExceptionIsCaptured ==
    \A ref \in invoked :
        body[DefOf(ref)] # "returns" =>
            /\ TestAt(ref).status = FAIL
            /\ TestAt(ref).traceback # None
            /\ ~(pc = "error" /\ error = "BaseException")

\* C3: a test case whose identity is in the skip registry when it is run is
\* skipped with the registered reason, or the default for an empty reason,
\* and its callable is not invoked.
C3_RegisteredTestIsSkipped ==
    \A ref \in Refs :
        (Ran(ref) /\ TestAt(ref).function_id \in DOMAIN SKIPPED_TESTS) =>
            /\ ref \notin invoked
            /\ TestAt(ref).status = SKIPPED
            /\ TestAt(ref).reason =
                   IF SKIPPED_TESTS[TestAt(ref).function_id] = ""
                   THEN NoReasonGiven
                   ELSE SKIPPED_TESTS[TestAt(ref).function_id]

\* Two tests whose callables would raise have been skipped, one with its
\* registered reason and one, registered with an empty reason, with the default.
C3_Witness ==
    /\ \E ref \in Refs :
          /\ Ran(ref) /\ body[DefOf(ref)] # "returns"
          /\ TestAt(ref).function_id \in DOMAIN SKIPPED_TESTS
          /\ SKIPPED_TESTS[TestAt(ref).function_id] = ""
          /\ TestAt(ref).reason = NoReasonGiven
    /\ \E ref \in Refs :
          /\ Ran(ref) /\ body[DefOf(ref)] # "returns"
          /\ TestAt(ref).reason = "flaky"

\* The file that defines a test definition.
FileOf(def) == CHOOSE f \in Files : \E i \in 1..Len(DefsOf(f)) : DefsOf(f)[i] = def
\* The markers on a definition that have skip_when true, in order.
TrueMarkers(def) == SelectSeq(marks[def], LAMBDA mk : mk.skip_when)

\* C4: a definition is in the registry exactly when its module has been
\* loaded and one of its markers has skip_when true, with the reason of the
\* last such marker applied; a test case whose markers all have skip_when
\* false has its callable invoked when run and is never skipped: it passes
\* when the callable returns and fails when it raises an Exception.
C4_MarkerRecordsIffSkipWhen ==
    /\ \A d \in Defs :
          /\ d \in DOMAIN SKIPPED_TESTS <=>
                 (FileOf(d) \in imported /\ TrueMarkers(d) # <<>>)
          /\ d \in DOMAIN SKIPPED_TESTS =>
                 SKIPPED_TESTS[d] = TrueMarkers(d)[Len(TrueMarkers(d))].reason
    /\ \A ref \in Refs :
          TrueMarkers(TestAt(ref).function_id) = <<>> =>
              /\ TestAt(ref).status # SKIPPED
              /\ TestAt(ref).reason = None
              /\ Ran(ref) =>
                    /\ ref \in invoked
                    /\ body[DefOf(ref)] = "returns" => TestAt(ref).status = PASS
                    /\ body[DefOf(ref)] = "raisesException" => TestAt(ref).status = FAIL

\* A test marked only with skip_when false has passed, one has failed, and
\* the registry is empty although two markers were applied.
C4_Witness ==
    /\ SKIPPED_TESTS = EmptyMap
    /\ \E ref \in Refs :
          /\ Len(marks[TestAt(ref).function_id]) >= 1
          /\ TestAt(ref).status = PASS
    /\ \E ref \in Refs :
          /\ Len(marks[TestAt(ref).function_id]) >= 1
          /\ TestAt(ref).status = FAIL

\* A test case that ran, unless its callable's exception left TestCase.run.
Returned(ref) ==
    Ran(ref) /\ ~(pc = "error" /\ error = "BaseException" /\ ref = <<mi, tci>>)

C5_State ==
    \A ref \in Refs :
        /\ TestAt(ref).status \in Terminal \cup {PENDING}
        /\ Returned(ref) => TestAt(ref).status \in Terminal
        /\ ~Ran(ref) => TestAt(ref).status = PENDING

\* The test case at the same place of the module list after the step (the
\* shuffles move test cases, all of them still pending, to other places).
Held(ref) ==
    /\ ref[1] <= Len(test_modules')
    /\ ref[2] <= Len(test_modules'[ref[1]].tests)
After(ref) == test_modules'[ref[1]].tests[ref[2]]

C5_Step ==
    \A ref \in Refs :
        /\ TestAt(ref).status # PENDING => Held(ref) /\ After(ref) = TestAt(ref)
        /\ (Held(ref) /\ After(ref).status # TestAt(ref).status) =>
               /\ InModule /\ phase = "test" /\ ref = <<mi, tci>>
               /\ TestAt(ref).status = PENDING
               /\ After(ref).status \in Terminal

\* C5: a test case is pending until its run() and terminal once its run() has
\* returned; its status changes only in its own run(), from pending to pass,
\* fail or skipped, and a test case with a terminal status is never changed.
C5_StatusChangesOnce == []C5_State /\ [][C5_Step]_vars

\* run() has returned with a passed and a failed test case behind it.
C5_Witness ==
    /\ pc = "done"
    /\ \E ref \in Refs : TestAt(ref).status = PASS
    /\ \E ref \in Refs : TestAt(ref).status = FAIL

\* The test cases of a module list.
TestsOf(modules) ==
    UNION {{modules[m].tests[t] : t \in 1..Len(modules[m].tests)} :
              m \in 1..Len(modules)}

\* C6: a test case has a traceback exactly when it has failed and a reason
\* exactly when it was skipped.
C6_TracebackAndReason ==
    \A t \in TestsOf(result) \cup TestsOf(test_modules) :
        /\ t.traceback # None <=> t.status = FAIL
        /\ t.reason # None <=> t.status = SKIPPED

\* Test cases of all four statuses exist at once.
C6_Witness ==
    \A s \in Terminal \cup {PENDING} : \E ref \in Refs : TestAt(ref).status = s

---------------------------------------------------------------------------
(* C7..C10: TestModule.__init__ and discover                               *)

HookNames == <<"setup", "teardown">>
\* The hook a module ended up with, by its place in HookNames.
HookOf(m, j) == IF j = 1 THEN m.setup ELSE m.teardown
Modules == {result[i] : i \in 1..Len(result)}
               \cup {test_modules[i] : i \in 1..Len(test_modules)}

\* The hooks invoked for a module are the hooks the module holds.
InvokedHooksAreTheModules ==
    \A i \in 1..Len(trace) : \A j \in 1..2 :
        trace[i].ev = HookNames[j] =>
            trace[i].hook = HookOf(test_modules[trace[i].m], j)

\* C7 as stated: a member named setup (teardown) of the loaded module, of
\* any kind, replaces the hook passed to the constructor.
C7_AnyLocalMemberOverrides ==
    /\ \A m \in Modules : \A j \in 1..2 :
          HookOf(m, j) =
              IF localHooks[m.path][HookNames[j]] # "absent"
              THEN Hook("local", m.path, HookNames[j])
              ELSE m.given[j]
    /\ InvokedHooksAreTheModules

\* C7, amended: for each hook on its own, a callable member named setup
\* (teardown) of the loaded module replaces the hook passed to the
\* constructor; with no such member, or one that is not callable, the module
\* keeps the hook passed in. Only the module's hook is ever invoked for it.
C7_LocalCallableOverrides ==
    /\ \A m \in Modules : \A j \in 1..2 :
          HookOf(m, j) =
              IF localHooks[m.path][HookNames[j]] = "function"
              THEN Hook("local", m.path, HookNames[j])
              ELSE m.given[j]
    /\ InvokedHooksAreTheModules

\* A module given both conftest hooks defines its own setup and no teardown:
\* its local setup and the conftest's teardown have been invoked for it.
C7_Witness ==
    \E i \in 1..Len(trace) : \E k \in 1..Len(trace) :
        LET m == test_modules[trace[i].m]
        IN  /\ trace[k].m = trace[i].m
            /\ m.given = <<Hook("conftest", Parent(m.path), "setup"),
                           Hook("conftest", Parent(m.path), "teardown")>>
            /\ localHooks[m.path] = [setup |-> "function", teardown |-> "absent"]
            /\ trace[i] = Event("setup", trace[i].m, trace[i].t,
                                Hook("local", m.path, "setup"))
            /\ trace[k] = Event("teardown", trace[i].m, trace[k].t,
                                Hook("conftest", Parent(m.path), "teardown"))

\* The hooks the conftest.py of directory dir defines, None for those it does
\* not define and when the directory has no conftest.py.
OwnConftestHooks(dir) ==
    [j \in 1..2 |->
        IF dir \in Dirs /\ conftestFiles[dir].exists
               /\ HookNames[j] \in conftestFiles[dir].attrs
        THEN Hook("conftest", dir, HookNames[j]) ELSE NoHook]

AtTarget == pc = "discover" /\ ti <= Len(args)

C8_Step ==
    (AtTarget /\ args[ti].rest = <<>> /\ IsDir(args[ti].path)) =>
        LET found == Rglob(args[ti].path)
        IN  /\ Len(result') = Len(result) + Len(found)
            /\ \A k \in 1..Len(found) :
                  LET m == result'[Len(result) + k]
                  IN  /\ m.path = found[k]
                      /\ m.given = OwnConftestHooks(Parent(m.path))
                      /\ \A j \in 1..2 : m.given[j].src = "conftest" =>
                                            m.given[j].at = Parent(m.path)

\* C8: a directory target adds one module per matched file, in walk order,
\* each constructed with the hooks of the conftest of the file's own
\* directory and with no hook of any other directory's conftest.
C8_DirectoryHooksAreNotMerged == [][C8_Step]_vars

\* Target d has been walked: the module in d holds d's two hooks, and the
\* module in d/sub, whose conftest defines a setup only, holds that setup and
\* no teardown.
C8_Witness ==
    /\ pc = "discover" /\ ti = 2 /\ args[1] = TDir
    /\ Len(result) = 2
    /\ result[1].path = FileA /\ result[2].path = FileB
    /\ result[1].given = <<Hook("conftest", DirD, "setup"),
                           Hook("conftest", DirD, "teardown")>>
    /\ result[2].given = <<Hook("conftest", DirSub, "setup"), NoHook>>

\* A selector target whose module is found and whose selector has one "::".
SelectorBuilt ==
    /\ AtTarget /\ args[ti].rest # <<>>
    /\ Len(args[ti].rest) = 1 /\ Importable(args[ti].path)

C9_NearestStep ==
    SelectorBuilt =>
        /\ Len(result') = Len(result) + 1
        /\ result'[Len(result')].given =
               OwnConftestHooks(Parent(NearestConftest(Parent(args[ti].path))))

\* C9 as stated: a selector's module is constructed with the hooks of the
\* conftest of its directory or, when it has none, of the closest ancestor
\* directory that has one.
C9_SelectorUsesNearestAncestor == [][C9_NearestStep]_vars

C9_OwnStep ==
    SelectorBuilt =>
        /\ Len(result') = Len(result) + 1
        /\ result'[Len(result')].path = args[ti].path
        /\ result'[Len(result')].given = OwnConftestHooks(Parent(args[ti].path))

\* C9, amended: a selector's module is constructed with the hooks of the
\* conftest of the directory that contains the module, and with no hooks when
\* that directory has no conftest: no ancestor directory is looked at.
C9_SelectorUsesContainingDirectory == [][C9_OwnStep]_vars

\* The selector d/sub/test_b.py::TestC has been resolved with d/sub holding no
\* conftest and d holding one: the module was constructed with no hooks.
C9_Witness ==
    /\ pc = "discover" /\ ti = 2 /\ args[1] = TSelectB
    /\ ~conftestFiles[DirSub].exists
    /\ conftestFiles[DirD] = Conftest(TRUE, {"setup", "teardown"})
    /\ Len(result) = 1
    /\ result[1].given = <<NoHook, NoHook>>

\* A target whose module path resolves to no module.
Unresolvable(target) ==
    /\ target.isStr
    /\ ~Importable(target.path)
    /\ target.rest = <<>> => ~IsDir(target.path)

BadTarget(target) ==
    ~target.isStr \/ MalformedSelector(target) \/ Unresolvable(target)

\* C10: with a bad target among its arguments run() never gets a module list
\* from discover, invokes no test callable and no hook, and returns no result.
C10_BadTargetIsFatal ==
    (\E i \in 1..Len(args) : BadTarget(args[i])) =>
        /\ pc \in {"args", "discover", "error"}
        /\ test_modules = <<>>
        /\ trace = <<>>
        /\ invoked = {}
        /\ returned = <<>>

---------------------------------------------------------------------------
(* C11: limit_tests_to                                                     *)

\* The name list asks for test case t: by its full name, or by the part of
\* its name before the first ".".
Asked(t) ==
    \E i \in 1..Len(names) :
        names[i] = t.test_name \/ names[i] = <<t.test_name[1]>>

Range(s) == {s[i] : i \in 1..Len(s)}
\* Where a test case stands in the harvested list (its names are distinct).
Place(t) == CHOOSE i \in 1..Len(kept[1]) : kept[1][i] = t

\* C11: after limit_tests_to(names) the module holds exactly the harvested
\* test cases that names asks for (by full name or by the part before the
\* first "."), each once and in harvest order; a second call with the same
\* names changes nothing.
C11_LimitKeepsExactlyTheNamed ==
    /\ limited.tests = kept[Len(kept)]
    /\ \A k \in 2..Len(kept) :
          /\ \A t \in Range(kept[1]) : t \in Range(kept[k]) <=> Asked(t)
          /\ Range(kept[k]) \subseteq Range(kept[1])
          /\ \A i \in 1..Len(kept[k]) : \A j \in 1..Len(kept[k]) :
                i < j => Place(kept[k][i]) < Place(kept[k][j])
    /\ \A k \in 3..Len(kept) : kept[k] = kept[2]

\* The class name has kept both methods of TestC, in harvest order, twice
\* over, although the other name asked for matches nothing.
C11_Witness ==
    /\ Len(kept) = 3
    /\ names = << <<"nope">>, <<"TestC">> >>
    /\ [i \in 1..Len(limited.tests) |-> limited.tests[i].test_name]
           = << <<"TestC", "test_m">>, <<"TestC", "test_n">> >>

---------------------------------------------------------------------------
(* C12: the order of a run that is not randomized                          *)

\* The module files a target stands for, in the order discover meets them.
Found(target) ==
    IF target.rest = <<>> /\ IsDir(target.path) THEN Rglob(target.path)
    ELSE <<target.path>>

RECURSIVE FoundUpTo(_)
\* The module files of the first n targets, target after target.
FoundUpTo(n) == IF n = 0 THEN <<>> ELSE FoundUpTo(n - 1) \o Found(args[n])

Paths(modules) == [m \in 1..Len(modules) |-> modules[m].path]
TestNamesOf(module) == [i \in 1..Len(module.tests) |-> module.tests[i].test_name]

\* The test names of a module file in the order its members are defined.
DefinitionOrder(file) ==
    IF file = FileA THEN << <<"test_1">>, <<"test_2">> >>
    ELSE IF file = FileB THEN << <<"TestC", "test_m">>, <<"TestC", "test_n">> >>
    ELSE <<>>

\* s lists some of the elements of the duplicate-free list l, in l's order.
InOrderOf(s, l) ==
    /\ Range(s) \subseteq Range(l)
    /\ \A i \in 1..Len(s) : \A j \in 1..Len(s) :
          i < j => (CHOOSE k \in 1..Len(l) : l[k] = s[i])
                       < (CHOOSE k \in 1..Len(l) : l[k] = s[j])

\* The test cases whose run() was called, in the order of the calls.
Executed ==
    LET tests == SelectSeq(trace, LAMBDA e : e.ev = "test")
    IN  [i \in 1..Len(tests) |-> <<tests[i].m, tests[i].t>>]

\* <<module, test>> a comes before b in the lists run() holds.
Precedes(a, b) == a[1] < b[1] \/ (a[1] = b[1] /\ a[2] < b[2])

Identities(refs) ==
    [i \in 1..Len(refs) |-> <<TestAt(refs[i]).module_name, TestAt(refs[i]).test_name>>]
Entries(dicts) == [i \in 1..Len(dicts) |-> <<dicts[i].module_name, dicts[i].test_name>>]

\* C12: without randomization discover's list holds the modules of the
\* targets, target after target, run() runs the modules in that order and
\* the test cases of each in harvest order, and each of the lists passes,
\* fails and skipped is in the order the tests were executed.
C12_OrderWithoutRandomization ==
    /\ pc \in {"discover", "prepare"} => Paths(result) = FoundUpTo(ti - 1)
    /\ \A m \in 1..Len(result) :
          InOrderOf(TestNamesOf(result[m]), DefinitionOrder(result[m].path))
    /\ (~randomize /\ pc \in {"run", "done"}) =>
          /\ Paths(test_modules) = FoundUpTo(Len(args))
          /\ \A m \in 1..Len(test_modules) :
                TestNamesOf(test_modules[m]) = TestNamesOf(result[m])
          /\ \A i \in 1..Len(Executed) : \A j \in 1..Len(Executed) :
                i < j => Precedes(Executed[i], Executed[j])
    /\ ~randomize =>
          \A list \in {passed_tests, failed_tests, skipped_tests} :
              /\ InOrderOf(list, Executed)
              /\ \A i \in 1..Len(list) : \A j \in 1..Len(list) :
                    i < j => Precedes(list[i], list[j])
    /\ (~randomize /\ returned # <<>>) =>
          /\ Entries(returned[1].passes) = Identities(passed_tests)
          /\ Entries(returned[1].fails) = Identities(failed_tests)
          /\ Entries(returned[1].skipped) = Identities(skipped_tests)

\* The targets d/sub/test_b.py and d/test_a.py::test_1, given against the
\* walk order, have run in the order given, and the three tests that passed
\* are listed in that order.
C12_Witness ==
    /\ pc = "done" /\ ~randomize
    /\ args = <<TModuleB, TSelectA>>
    /\ Paths(test_modules) = <<FileB, FileA>>
    /\ Entries(returned[1].passes)
           = << <<FileB, <<"TestC", "test_m">> >>, <<FileB, <<"TestC", "test_n">> >>,
                <<FileA, <<"test_1">> >> >>

---------------------------------------------------------------------------
(* C13: the result lists partition the discovered tests                    *)

\* How many times a test case stands in a list.
Times(ref, list) == Cardinality({i \in 1..Len(list) : list[i] = ref})

\* The list of run() that holds the test cases of a status.
ListOf(status) ==
    IF status = PASS THEN passed_tests
    ELSE IF status = FAIL THEN failed_tests
    ELSE skipped_tests

\* C13: when run() returns every test case of every discovered module has a
\* terminal status and stands once in the list of its status and in no
\* other; the three lists hold the discovered test cases and nothing else,
\* the result lists what they hold, and the summary's pass count is the
\* length of passes.
C13_ListsPartitionTheTests ==
    pc = "done" =>
        /\ Len(test_modules) = Len(result)
        /\ test_count = SumTests(result)
        /\ Cardinality(Refs) = test_count
        /\ \A ref \in Refs :
              /\ TestAt(ref).status \in Terminal
              /\ \A s \in Terminal :
                    Times(ref, ListOf(s)) = IF TestAt(ref).status = s THEN 1 ELSE 0
        /\ \A s \in Terminal : Range(ListOf(s)) \subseteq Refs
        /\ Len(passed_tests) + Len(failed_tests) + Len(skipped_tests) = test_count
        /\ returned[1].passes = [i \in 1..Len(passed_tests) |-> as_dict(TestAt(passed_tests[i]))]
        /\ returned[1].fails = [i \in 1..Len(failed_tests) |-> as_dict(TestAt(failed_tests[i]))]
        /\ returned[1].skipped = [i \in 1..Len(skipped_tests) |-> as_dict(TestAt(skipped_tests[i]))]
        /\ \A i \in 1..Len(returned[1].passes) : returned[1].passes[i].status = PASS
        /\ \A i \in 1..Len(returned[1].fails) :
              /\ returned[1].fails[i].status = FAIL
              /\ returned[1].fails[i].traceback = parse_traceback_from_exception
        /\ \A i \in 1..Len(returned[1].skipped) : returned[1].skipped[i].status = SKIPPED
        /\ pass_count = Len(returned[1].passes)

\* run() has returned a result with a pass, a fail and a skipped test.
C13_Witness ==
    /\ pc = "done"
    /\ Len(returned[1].passes) >= 1
    /\ Len(returned[1].fails) >= 1
    /\ Len(returned[1].skipped) >= 1
    /\ test_count = 4

---------------------------------------------------------------------------
(* C14: two runs of the same suite                                         *)

\* What the claim compares in a result list: place by place, the module,
\* the test and its status.
Outline(dicts) ==
    [i \in 1..Len(dicts) |-> <<dicts[i].module_name, dicts[i].test_name, dicts[i].status>>]

\* C14: a second run of the same suite without randomization returns the
\* passes, fails and skipped lists of the first, entry by entry.
C14_SecondRunReturnsTheSame ==
    (runs = 2 /\ pc = "done") =>
        /\ Outline(returned[1].passes) = Outline(first[1].passes)
        /\ Outline(returned[1].fails) = Outline(first[1].fails)
        /\ Outline(returned[1].skipped) = Outline(first[1].skipped)

\* Two runs over both modules have returned, with passed, failed and
\* skipped tests in their results.
C14_Witness ==
    /\ runs = 2 /\ pc = "done"
    /\ Len(test_modules) = 2
    /\ Len(returned[1].passes) >= 1
    /\ Len(returned[1].fails) >= 1
    /\ Len(returned[1].skipped) >= 1
    /\ returned = first

---------------------------------------------------------------------------
(* C15, C20: the raises guard                                              *)

Contains(message, piece) == \E i \in 1..Len(message) : message[i] = piece

\* C15: when the block is left, a guard one of whose expected kinds is
\* exactly the kind raised holds the exception and its trace and raises
\* nothing; in every other case (nothing raised, another kind, a subclass of
\* an expected kind) it raises an assertion failure that names the expected
\* kinds and what was raised, or None.
C15_ExactKindOrAssertion ==
    guard_pc \in {"left", "raised"} =>
        IF \E i \in 1..Len(expected) : expected[i] = block
        THEN /\ guard_pc = "left"
             /\ guard_error = NoError
             /\ guard.exception = Instance(block)
             /\ guard.traceback # None
        ELSE /\ guard_pc = "raised"
             /\ guard_error.kind = "AssertionError"
             /\ Contains(guard_error.message, "Did not raise expected exception.")
             /\ \A i \in 1..Len(expected) : Contains(guard_error.message, expected[i])
             /\ Contains(guard_error.message, IF block = None THEN "None" ELSE block)
             /\ guard.exception = None /\ guard.traceback = None

\* A guard expecting LookupError has raised the assertion failure on a
\* KeyError, a subclass of LookupError.
C15_Witness ==
    /\ guard_pc = "raised"
    /\ expected = <<"LookupError">>
    /\ block = "KeyError"
    /\ guard_error.message =
           <<"Did not raise expected exception.", " Expected ", "LookupError",
             "; but got ", "KeyError", ".">>

\* An argument of raises(...) that is no exception class.
NotThrowable(x) == x \notin Throwables

\* C20 as stated: a construction with no argument, or with an argument that
\* is no exception class, fails with a type error and leaves no guard; any
\* other construction leaves a guard with exception and traceback unset.
C20_BadConstructionIsATypeError ==
    guard_pc \in {"made", "failed"} =>
        IF expected = <<>> \/ \E i \in 1..Len(expected) : NotThrowable(expected[i])
        THEN guard_pc = "failed" /\ guard_error.kind = "TypeError" /\ ~guard.made
        ELSE /\ guard_pc = "made" /\ guard_error = NoError /\ guard.made
             /\ guard.expected_exceptions = expected
             /\ guard.exception = None /\ guard.traceback = None

\* C20, amended: a construction with no argument fails with a value error,
\* one with an argument that is no exception class with a type error, and
\* both leave no guard; any other construction leaves a guard with
\* exception and traceback unset.
C20_BadConstructionFails ==
    guard_pc \in {"made", "failed"} =>
        IF expected = <<>>
        THEN guard_pc = "failed" /\ guard_error.kind = "ValueError" /\ ~guard.made
        ELSE IF \E i \in 1..Len(expected) : NotThrowable(expected[i])
        THEN guard_pc = "failed" /\ guard_error.kind = "TypeError" /\ ~guard.made
        ELSE /\ guard_pc = "made" /\ guard_error = NoError /\ guard.made
             /\ guard.expected_exceptions = expected
             /\ guard.exception = None /\ guard.traceback = None

\* raises() with no argument has failed with a value error.
C20_Witness ==
    /\ guard_pc = "failed"
    /\ expected = <<>>
    /\ guard_error = Raised("ValueError", <<"Missing expected exceptions.">>)

---------------------------------------------------------------------------
(* C16: a hook that raises                                                 *)

C16_State ==
    error = "HookError" =>
        LET last == trace[Len(trace)]
            here == <<mi, tci>>
        IN  /\ pc = "error"
            /\ returned = <<>>
            /\ last.ev \in {"setup", "teardown"} /\ last.m = mi /\ last.t = tci
            /\ \A i \in 1..Len(trace) : ~Precedes(here, <<trace[i].m, trace[i].t>>)
            /\ \A ref \in Refs :
                  Precedes(here, ref) =>
                      /\ TestAt(ref).status = PENDING
                      /\ ~Ran(ref) /\ ref \notin invoked
            /\ \A s \in Terminal : \A i \in 1..Len(ListOf(s)) : ListOf(s)[i][1] < mi
            /\ last.ev = "setup" =>
                  /\ TestAt(here).status = PENDING
                  /\ ~Ran(here) /\ here \notin invoked
                  /\ \A i \in 1..Len(trace) :
                        ~(trace[i].ev = "teardown" /\ trace[i].m = mi /\ trace[i].t = tci)

\* C16: once a setup or teardown hook has raised, run() has ended with that
\* exception and nothing more happens: no result, the test cases after the
\* hook's still pending and never run, no later module run, no test of the
\* module collected; after a setup that raised, the test it precedes is
\* neither run nor followed by teardown.
C16_HookExceptionEndsTheRun ==
    []C16_State /\ [][error = "HookError" => UNCHANGED vars]_vars

\* The setup of the first module's second test has raised, with a second
\* module waiting.
C16_Witness ==
    /\ error = "HookError" /\ pc = "error"
    /\ trace[Len(trace)].ev = "setup"
    /\ mi = 1 /\ tci = 2
    /\ Len(test_modules) = 2
    /\ TestAt(<<1, 1>>).status \in Terminal

---------------------------------------------------------------------------
(* C17: the identity used for the skip lookup                              *)

\* C17: a test case is looked up in the skip registry under the definition
\* its callable ends up calling, for a function and for a method of a test
\* class, plain or suspending: once run it is skipped exactly when that
\* definition carries a marker with skip_when true, a skipped test case has
\* not had its body run, and no marker on another definition skips it.
C17_SkipFollowsTheDefinition ==
    \A ref \in Refs :
        /\ TestAt(ref).function_id = DefOf(ref)
        /\ Ran(ref) =>
              (TestAt(ref).status = SKIPPED <=> TrueMarkers(DefOf(ref)) # <<>>)
        /\ TestAt(ref).status = SKIPPED =>
              /\ ref \notin invoked
              /\ TrueMarkers(DefOf(ref)) # <<>>

\* Both methods of TestC, the plain and the suspending one, are marked and
\* were skipped, their bodies, which would raise, not run; the unmarked
\* tests of the other module ran.
C17_Witness ==
    /\ pc = "done" /\ args = <<TDir>>
    /\ body["bm"] = "raisesException" /\ body["bn"] = "raisesException"
    /\ \E r1 \in Refs : \E r2 \in Refs :
          /\ TestAt(r1).test_name = <<"TestC", "test_m">>
          /\ ~TestAt(r1).test_function.awaitable
          /\ TestAt(r2).test_name = <<"TestC", "test_n">>
          /\ TestAt(r2).test_function.awaitable
          /\ TestAt(r1).status = SKIPPED /\ TestAt(r2).status = SKIPPED
          /\ r1 \notin invoked /\ r2 \notin invoked
    /\ \E r \in Refs : TestAt(r).status = PASS /\ r \in invoked
    /\ \E r \in Refs : TestAt(r).status = FAIL /\ r \in invoked

---------------------------------------------------------------------------
(* C18: the Fisher-Yates loop of shuffle                                   *)

\* How many times x stands in a list.
Count(x, list) == Cardinality({i \in 1..Len(list) : list[i] = x})
IsPermutationOf(a, b) ==
    /\ Len(a) = Len(b)
    /\ \A x \in Range(a) \cup Range(b) : Count(x, a) = Count(x, b)

\* The sequences of values of j the loop can draw on a list of n elements.
ChoiceSeqs(n) ==
    IF n <= 1 THEN {<<>>}
    ELSE {js \in [1..(n - 1) -> 0..(n - 1)] : \A k \in 1..(n - 1) : js[k] \in Draws(n - k)}

RECURSIVE Factorial(_)
Factorial(n) == IF n <= 1 THEN 1 ELSE n * Factorial(n - 1)

\* The orders the elements of a list can stand in.
Arrangements(list) ==
    {[i \in 1..Len(list) |-> list[p[i]]] : p \in Permutations(1..Len(list))}

ShuffleDone == fy_i < 1

\* C18: at every pass the list is a permutation of the list given; every
\* order of the list given is left by some sequence of draws, there are N!
\* such sequences for N elements, and on distinct elements no other sequence
\* of draws leaves the order this one left; a list of 0 or 1 elements is
\* left as it is.
C18_FisherYatesIsAUniformPermutation ==
    LET n == Len(unshuffled)
    IN  /\ IsPermutationOf(shuffled, unshuffled)
        /\ Len(picked) = (IF n = 0 THEN 0 ELSE n - 1) - (IF fy_i < 0 THEN 0 ELSE fy_i)
        /\ n <= 1 => ShuffleDone /\ shuffled = unshuffled
        /\ picked = <<>> =>
              /\ Cardinality(ChoiceSeqs(n)) = Factorial(n)
              /\ \A order \in Arrangements(unshuffled) :
                    \E js \in ChoiceSeqs(n) : FisherYates(unshuffled, n - 1, js) = order
        /\ ShuffleDone =>
              /\ picked \in ChoiceSeqs(n)
              /\ shuffled = FisherYates(unshuffled, n - 1, picked)
              /\ Cardinality(Range(unshuffled)) = n =>
                    \A js \in ChoiceSeqs(n) :
                        FisherYates(unshuffled, n - 1, js) = shuffled => js = picked

\* A list of three distinct elements has been reversed by the loop.
C18_Witness ==
    /\ ShuffleDone
    /\ unshuffled = <<1, 2, 3>>
    /\ shuffled = <<3, 2, 1>>
    /\ Len(picked) = 2

---------------------------------------------------------------------------
(* C19: the conftest cache of discover                                     *)

---------------------------------------------------------------------------
(* C23: the inherited hooks and the form of the target                     *)

\* C23: whatever form of target a module file was reached through, its
\* TestModule was constructed with the hooks of the conftest of the
\* directory that contains the file, None for a hook that conftest does not
\* define or when there is no such conftest; two modules of the same file
\* were constructed with the same hooks.
C23_HooksDoNotDependOnTheForm ==
    /\ \A m \in Modules : m.given = OwnConftestHooks(Parent(m.path))
    /\ \A m \in Modules : \A n \in Modules : m.path = n.path => m.given = n.given

\* d/sub/test_b.py has been reached below the directory d, by a selector
\* and by its path: the three modules were constructed with the setup of
\* d/sub/conftest.py and no teardown, although d/conftest.py defines both.
C23_Witness ==
    /\ pc = "prepare"
    /\ args = <<TDir, TSelectB, TModuleB>>
    /\ conftestFiles[DirD] = Conftest(TRUE, {"setup", "teardown"})
    /\ conftestFiles[DirSub] = Conftest(TRUE, {"setup"})
    /\ Len(result) = 4
    /\ \A k \in 2..4 :
          /\ result[k].path = FileB
          /\ result[k].given = <<Hook("conftest", DirSub, "setup"), NoHook>>


\* The calls run() has made so far.
Calls == inflight \cup completed

\* Module m is over: each of its test cases has a terminal status and each
\* call made for it (setup and teardown when it has them, the callable of a
\* test that is not skipped) has completed.
ModuleOver(m) ==
    \A t \in 1..Len(test_modules[m].tests) :
        /\ TestAt(<<m, t>>).status \in Terminal
        /\ test_modules[m].setup # NoHook =>
              Event("setup", m, t, test_modules[m].setup) \in completed
        /\ <<m, t>> \in invoked => Event("test", m, t, NoHook) \in completed
        /\ test_modules[m].teardown # NoHook =>
              Event("teardown", m, t, test_modules[m].teardown) \in completed

\* The test cases discover returned, and those of them with identity x.
Discovered ==
    UNION {{<<m, t>> : t \in 1..Len(result[m].tests)} : m \in 1..Len(result)}
IdentityOf(r) == <<result[r[1]].tests[r[2]].module_name, result[r[1]].tests[r[2]].test_name>>
DiscoveredAs(x) == {r \in Discovered : IdentityOf(r) = x}

\* A module as randomization leaves it: its path and the names of its tests.
Shape(modules) ==
    [m \in 1..Len(modules) |->
        [path |-> modules[m].path,
         names |-> Range(TestNamesOf(modules[m])),
         n |-> Len(modules[m].tests)]]

\* C21: tests run one at a time and module by module, also when random is
\* set and when tests and hooks suspend: at most one call made by the
\* runner is in flight, and it is the call of the current step; when a call
\* of a module has been made every earlier module is over and no later
\* module has been called; the modules and tests run() holds are those
\* discover returned, reordered at most; no test case is run twice, and when
\* run() returns the tests executed are, each exactly once, the tests
\* discovered.
C21_OneAtATimeModuleByModule ==
    /\ Cardinality(inflight) <= 1
    /\ \A c \in inflight : InModule /\ c = CurrentCall
    /\ \A c \in Calls :
          /\ c.m <= mi
          /\ \A m \in 1..(c.m - 1) : ModuleOver(m)
    /\ \A i \in 1..Len(trace) : \A j \in 1..Len(trace) :
          i < j => trace[i].m <= trace[j].m
    /\ pc \in {"run", "done"} => IsPermutationOf(Shape(test_modules), Shape(result))
    /\ \A ref \in Refs : Count(ref, Executed) <= 1
    /\ pc = "done" =>
          /\ Len(Executed) = Cardinality(Discovered)
          /\ \A r \in Discovered :
                Count(IdentityOf(r), Identities(Executed)) = Cardinality(DiscoveredAs(IdentityOf(r)))
          /\ \A m \in 1..Len(test_modules) : ModuleOver(m)

\* A shuffled run has returned: the modules ran in another order than the
\* one discovered, the tests of the first in another order than harvested,
\* and the suspending test method was awaited to its end.
C21_Witness ==
    /\ pc = "done"
    /\ randomize
    /\ Paths(test_modules) # Paths(result)
    /\ TestNamesOf(test_modules[1]) # TestNamesOf(result[2])
    /\ test_modules[1].path = result[2].path
    /\ \E c \in completed :
          /\ c.ev = "test"
          /\ TestAt(<<c.m, c.t>>).test_function.awaitable
    /\ \E c \in completed : c.ev = "setup"
    /\ \E c \in completed : c.ev = "teardown"

\* A call in flight is one that never completes.
Hung == \E c \in inflight : Callee(c) \in hanging
\* discover raised: run() ended before any test ran.
DiscoveryFailed == error \in {"ValueError", "ImportError"}
\* A setup or teardown hook raised.
HookRaised == error = "HookError"
\* run() is over: it returned or an exception left it.
Ended == pc \in {"done", "error"}

\* C22: when discovery succeeds and every test callable and hook terminates
\* with no hook raising, run() ends by returning a result in which every
\* discovered test has a terminal status; while a callable that never
\* completes is in flight the run is blocked: nothing has been returned and
\* every later test is pending.
C22_EndsWithAResultUnlessBlocked ==
    /\ (Ended /\ ~DiscoveryFailed /\ ~HookRaised) =>
          /\ pc = "done"
          /\ returned # <<>>
          /\ \A ref \in Refs : TestAt(ref).status \in Terminal
    /\ Hung =>
          /\ pc = "run"
          /\ returned = <<>>
          /\ \A ref \in Refs : Precedes(<<mi, tci>>, ref) => TestAt(ref).status = PENDING
====
